---- MODULE Spec2Model ----
(***************************************************************************)
(* Retrieval engine of knowledge-backend/vector_store.py (KnowledgeStore)  *)
(* as a state machine over the ChromaDB collection.                        *)
(*                                                                         *)
(* Strings are kept run-length encoded, as sequences of segments: the      *)
(* segment WS is a run of whitespace, a word segment [first, n] is the n   *)
(* words numbered first, first+1, ..., first+n-1 with one space between    *)
(* them.  Two word segments of a string are always separated by WS.  A     *)
(* list of words is a sequence of word segments.                           *)
(***************************************************************************)
EXTENDS Integers, Sequences, FiniteSets, TLC

VARIABLES collection, ret, hist,
          history_cache, now, rng, in_flight,
          vader_analyzer, transformer_analyzer

\* the module globals of mock_history.py with the clock, the seeded generator and
\* the calls of get_customer_history that have not returned yet, and the globals
\* of sentiment.py
historyVars == <<history_cache, now, rng, in_flight>>
sentimentVars == <<vader_analyzer, transformer_analyzer>>
\* ret.op comes first: the results of two calls are compared only when both are
\* results of the same operation
vars == <<ret.op, collection, ret, hist, historyVars, sentimentVars>>

(* ------------------------------ bounds -------------------------------- *)
MaxWords == 1400

CHUNK_SIZE == 500
CHUNK_OVERLAP == 50

(* ------------------------------ strings ------------------------------- *)
WS == [first |-> 0, n |-> 0]
Seg(first, n) == [first |-> first, n |-> n]

\* len(words)
RECURSIVE WLen(_)
WLen(words) == IF words = <<>> THEN 0 ELSE Head(words).n + WLen(Tail(words))

\* words[i:] and words[:k] of Python, for i, k >= 0
RECURSIVE Drop(_, _)
Drop(words, i) ==
    IF i <= 0 \/ words = <<>> THEN words
    ELSE IF Head(words).n <= i THEN Drop(Tail(words), i - Head(words).n)
    ELSE <<Seg(Head(words).first + i, Head(words).n - i)>> \o Tail(words)

RECURSIVE Take(_, _)
Take(words, k) ==
    IF k <= 0 \/ words = <<>> THEN <<>>
    ELSE IF Head(words).n <= k THEN <<Head(words)>> \o Take(Tail(words), k - Head(words).n)
    ELSE <<Seg(Head(words).first, k)>>

\* str.split(): the whitespace-free words of a string, in order
split(s) == SelectSeq(s, LAMBDA t : t # WS)

\* ' '.join(words)
join(words) ==
    IF words = <<>> THEN <<>>
    ELSE [i \in 1..(2 * Len(words) - 1) |->
            IF i % 2 = 1 THEN words[(i + 1) \div 2] ELSE WS]

\* words[i:j] of Python, for 0 <= i
slice(words, i, j) == Take(Drop(words, i), j - i)

\* range(0, stop, step) of Python: step = 0 raises ValueError, a negative step
\* from 0 yields nothing
range0(stop, step) ==
    IF step = 0 THEN [err |-> TRUE, vals |-> <<>>]
    ELSE IF step < 0 \/ stop <= 0 THEN [err |-> FALSE, vals |-> <<>>]
    ELSE [err |-> FALSE,
          vals |-> [k \in 1..((stop + step - 1) \div step) |-> (k - 1) * step]]

(* ---------------------------- chunk_text ------------------------------ *)
\* chunk_text stepping by chunk_size, the overlap forgotten
chunk_text_no_overlap(text, chunk_size, overlap) ==
    LET words == split(text)
        starts == range0(WLen(words), chunk_size)
    IN  IF starts.err THEN [err |-> TRUE, chunks |-> <<>>]
        ELSE [err |-> FALSE,
              chunks |-> [k \in 1..Len(starts.vals) |->
                           join(slice(words, starts.vals[k], starts.vals[k] + chunk_size))]]

\* chunk_text cutting windows of one stride only, so that chunks share no word
chunk_text_short_window(text, chunk_size, overlap) ==
    LET words == split(text)
        starts == range0(WLen(words), chunk_size - overlap)
    IN  IF starts.err THEN [err |-> TRUE, chunks |-> <<>>]
        ELSE [err |-> FALSE,
              chunks |-> [k \in 1..Len(starts.vals) |->
                           join(slice(words, starts.vals[k],
                                      starts.vals[k] + chunk_size - overlap))]]

\* KnowledgeStore.chunk_text; err is the ValueError of range()
chunk_text(text, chunk_size, overlap) ==
    LET words == split(text)
        starts == range0(WLen(words), chunk_size - overlap)
    IN  IF starts.err THEN [err |-> TRUE, chunks |-> <<>>]
        ELSE LET all == [k \in 1..Len(starts.vals) |->
                           join(slice(words, starts.vals[k], starts.vals[k] + chunk_size))]
             IN  [err |-> FALSE, chunks |-> SelectSeq(all, LAMBDA c : c # <<>>)]

(* ------------------------------ inputs -------------------------------- *)
\* the text of n words numbered from first, single spaces between them;
\* padded texts also start and end with whitespace
Words(first, n) == IF n <= 0 THEN <<>> ELSE <<Seg(first, n)>>
Text(first, n, padded) ==
    IF padded THEN <<WS>> \o (IF n <= 0 THEN <<>> ELSE join(Words(first, n)) \o <<WS>>)
    ELSE join(Words(first, n))

None == <<>>
Some(x) == <<x>>

\* dict.get(key, default)
Get(d, key, default) == IF key \in DOMAIN d THEN d[key] ELSE default

(* --------------------------- embedding -------------------------------- *)
\* SentenceTransformer.encode, abstracted to a deterministic map from a text to a
\* point 0..EmbMod-1 on a line
EmbMod == 5
embed_text(text) ==
    LET w == split(text)
        last == w[Len(w)].first + w[Len(w)].n - 1
    IN  IF w = <<>> THEN 0 ELSE (3 * w[1].first + last + WLen(w)) % EmbMod

\* the collection's distance between two embeddings (squared L2), in 1e-5 units
DistUnit == 12345
Distance(e1, e2) == (e1 - e2) * (e1 - e2) * DistUnit

(* ------------------------ ChromaDB collection ------------------------- *)
\* The collection is the sequence of its records in insertion order; ids are unique.
Ids(coll) == [i \in 1..Len(coll) |-> coll[i].id]
IdSet(coll) == {coll[i].id : i \in 1..Len(coll)}

\* Collection.add of one record: a record whose id is already stored is ignored
CollectionAdd(coll, rec) ==
    IF rec.id \in IdSet(coll) THEN coll ELSE Append(coll, rec)

\* Collection.count
CollectionCount(coll) == Len(coll)

\* Collection.get(where={field: value}): the matching records
CollectionGet(coll, field, value) ==
    SelectSeq(coll, LAMBDA r : r.metadata[field] = value)

\* Collection.delete(ids)
CollectionDelete(coll, ids) == SelectSeq(coll, LAMBDA r : r.id \notin ids)

\* Collection.peek(limit): the first records
CollectionPeek(coll, limit) ==
    IF limit >= Len(coll) THEN coll ELSE SubSeq(coll, 1, limit)

\* a query answering farthest first
CollectionQuery_farthest_first(coll, q, n_results, where) ==
    IF n_results <= 0 THEN [err |-> TRUE, hits |-> <<>>]
    ELSE
      LET cand == IF where = None THEN coll
                  ELSE SelectSeq(coll, LAMBDA r : r.metadata.category = where[1])
          d(i) == Distance(q, cand[i].embedding)
          rank(i) == Cardinality({j \in 1..Len(cand) :
                                    d(j) > d(i) \/ (d(j) = d(i) /\ j < i)})
          at(k) == CHOOSE i \in 1..Len(cand) : rank(i) = k - 1
          n == IF n_results < Len(cand) THEN n_results ELSE Len(cand)
      IN  [err |-> FALSE,
           hits |-> [k \in 1..n |->
                      [id |-> cand[at(k)].id,
                       document |-> cand[at(k)].document,
                       metadata |-> cand[at(k)].metadata,
                       distance |-> d(at(k))]]]

\* Collection.query: n_results <= 0 is refused; otherwise the records passing the
\* where filter, nearest first, at most n_results of them
CollectionQuery(coll, q, n_results, where) ==
    IF n_results <= 0 THEN [err |-> TRUE, hits |-> <<>>]
    ELSE
      LET cand == IF where = None THEN coll
                  ELSE SelectSeq(coll, LAMBDA r : r.metadata.category = where[1])
          d(i) == Distance(q, cand[i].embedding)
          rank(i) == Cardinality({j \in 1..Len(cand) :
                                    d(j) < d(i) \/ (d(j) = d(i) /\ j < i)})
          at(k) == CHOOSE i \in 1..Len(cand) : rank(i) = k - 1
          n == IF n_results < Len(cand) THEN n_results ELSE Len(cand)
      IN  [err |-> FALSE,
           hits |-> [k \in 1..n |->
                      [id |-> cand[at(k)].id,
                       document |-> cand[at(k)].document,
                       metadata |-> cand[at(k)].metadata,
                       distance |-> d(at(k))]]]

(* --------------------------- KnowledgeStore --------------------------- *)
\* f"{doc_id}_chunk_{i}"
ChunkId(doc_id, i) == doc_id \o "_chunk_" \o ToString(i)

\* ChunkRecord counting the chunks made so far instead of len(chunks)
ChunkRecord_running_total(doc, chunks, i) ==
    LET title == Get(doc, "title", <<>>)
        chunk == chunks[i + 1]
    IN  [id |-> ChunkId(Get(doc, "id", ""), i),
         embedding |-> embed_text(title \o <<WS>> \o chunk),
         document |-> chunk,
         metadata |-> [doc_id |-> Get(doc, "id", ""),
                       title |-> title,
                       url |-> Get(doc, "url", ""),
                       category |-> Get(doc, "category", "General"),
                       chunk_index |-> i,
                       total_chunks |-> i + 1]]

\* the record ingest_documents adds for chunk number i (0-based) of a document
ChunkRecord(doc, chunks, i) ==
    LET title == Get(doc, "title", <<>>)
        chunk == chunks[i + 1]
    IN  [id |-> ChunkId(Get(doc, "id", ""), i),
         embedding |-> embed_text(title \o <<WS>> \o chunk),
         document |-> chunk,
         metadata |-> [doc_id |-> Get(doc, "id", ""),
                       title |-> title,
                       url |-> Get(doc, "url", ""),
                       category |-> Get(doc, "category", "General"),
                       chunk_index |-> i,
                       total_chunks |-> Len(chunks)]]

\* the inner loop of ingest_documents, chunks i.. of one document: one
\* CollectionAdd per chunk, in order. The ids of the chunks of one document differ,
\* so whether an add is ignored depends on the ids stored before the loop only.
AddChunks(coll, doc, chunks, i) ==
    LET recs == [k \in 1..(Len(chunks) - i) |-> ChunkRecord(doc, chunks, i + k - 1)]
    IN  coll \o SelectSeq(recs, LAMBDA r : CollectionAdd(coll, r) # coll)

\* the loop body without the `if not content: continue` guard
IngestOne_no_skip(st, doc) ==
    LET chunks == chunk_text(Get(doc, "content", <<>>), CHUNK_SIZE, CHUNK_OVERLAP).chunks
    IN  [coll |-> AddChunks(st.coll, doc, chunks, 0),
         total_chunks |-> st.total_chunks + Len(chunks),
         doc_count |-> st.doc_count + 1]

\* one iteration of the outer loop of ingest_documents
IngestOne(st, doc) ==
    LET content == Get(doc, "content", <<>>)
    IN  IF content = <<>> THEN st
        ELSE LET chunks == chunk_text(content, CHUNK_SIZE, CHUNK_OVERLAP).chunks
             IN  [coll |-> AddChunks(st.coll, doc, chunks, 0),
                  total_chunks |-> st.total_chunks + Len(chunks),
                  doc_count |-> st.doc_count + 1]

RECURSIVE IngestLoop(_, _)
IngestLoop(st, documents) ==
    IF documents = <<>> THEN st
    ELSE IngestLoop(IngestOne(st, Head(documents)), Tail(documents))

\* KnowledgeStore.ingest_documents: the collection afterwards and the returned stats
ingest_documents(coll, documents) ==
    LET st == IngestLoop([coll |-> coll, total_chunks |-> 0, doc_count |-> 0], documents)
    IN  [coll |-> st.coll,
         val |-> [documents_ingested |-> st.doc_count,
                  chunks_created |-> st.total_chunks,
                  total_documents |-> CollectionCount(st.coll)]]

\* round(x, 4) of a value given in 1e-5 units, in 1e-4 units (ties to even)
Round4(x) ==
    LET q == x \div 10
        r == x % 10
    IN  IF r < 5 THEN q
        ELSE IF r > 5 THEN q + 1
        ELSE IF q % 2 = 0 THEN q ELSE q + 1

One5 == 100000
Max(a, b) == IF a >= b THEN a ELSE b
Min(a, b) == IF a <= b THEN a ELSE b

\* `if category_filter:` is false for None and for the empty string
WhereFilter(category_filter) ==
    IF category_filter # None /\ category_filter[1] # "" THEN category_filter ELSE None

\* KnowledgeStore.search: err when the query raises, else the formatted results;
\* raw is the answer of the collection
search(coll, query, top_k, category_filter) ==
    LET results == CollectionQuery(coll, embed_text(query), top_k,
                                   WhereFilter(category_filter))
    IN  IF results.err THEN [err |-> TRUE, val |-> <<>>, raw |-> <<>>]
        ELSE [err |-> FALSE,
              raw |-> results.hits,
              val |-> [i \in 1..Len(results.hits) |->
                        LET h == results.hits[i]
                        IN  [content |-> h.document,
                             title |-> h.metadata.title,
                             url |-> h.metadata.url,
                             category |-> h.metadata.category,
                             relevance |-> Round4(Max(0, One5 - h.distance)),
                             chunk_index |-> h.metadata.chunk_index,
                             total_chunks |-> h.metadata.total_chunks]]]

\* KnowledgeStore.get_stats
SAMPLE_LIMIT == 100

\* get_stats counting the chunks on the sample
get_stats_sampled(coll) ==
    LET count == CollectionCount(coll)
        sample == CollectionPeek(coll, IF count < SAMPLE_LIMIT THEN count ELSE SAMPLE_LIMIT)
        cats == {sample[i].metadata.category : i \in 1..Len(sample)}
        titles == {sample[i].metadata.title : i \in 1..Len(sample)}
    IN  IF count > 0
        THEN [total_chunks |-> Len(sample),
              unique_documents |-> Cardinality(titles),
              categories |-> [c \in cats |->
                  Cardinality({i \in 1..Len(sample) : sample[i].metadata.category = c})]]
        ELSE [total_chunks |-> 0, unique_documents |-> 0, categories |-> <<>>]

get_stats(coll) ==
    LET count == CollectionCount(coll)
        sample == CollectionPeek(coll, IF count < SAMPLE_LIMIT THEN count ELSE SAMPLE_LIMIT)
        cats == {sample[i].metadata.category : i \in 1..Len(sample)}
        titles == {sample[i].metadata.title : i \in 1..Len(sample)}
    IN  IF count > 0
        THEN [total_chunks |-> count,
              unique_documents |-> Cardinality(titles),
              categories |-> [c \in cats |->
                  Cardinality({i \in 1..Len(sample) : sample[i].metadata.category = c})]]
        ELSE [total_chunks |-> 0, unique_documents |-> 0, categories |-> <<>>]

\* delete_document removing only the first chunk it found
delete_document_first(coll, doc_id) ==
    LET results == CollectionGet(coll, "doc_id", doc_id)
    IN  IF results # <<>>
        THEN [coll |-> CollectionDelete(coll, {results[1].id}), val |-> TRUE,
              raw |-> Ids(results)]
        ELSE [coll |-> coll, val |-> FALSE, raw |-> <<>>]

\* delete_document answering true whatever it found
delete_document_always_true(coll, doc_id) ==
    LET results == CollectionGet(coll, "doc_id", doc_id)
    IN  [coll |-> CollectionDelete(coll, IdSet(results)), val |-> TRUE,
         raw |-> Ids(results)]

\* delete_document emptying the collection once it found a chunk
delete_document_everything(coll, doc_id) ==
    LET results == CollectionGet(coll, "doc_id", doc_id)
    IN  IF results # <<>>
        THEN [coll |-> <<>>, val |-> TRUE, raw |-> Ids(results)]
        ELSE [coll |-> coll, val |-> FALSE, raw |-> <<>>]

\* KnowledgeStore.delete_document; the except branch is taken only when the collection
\* raises, which a working collection does not do for a string doc_id
delete_document(coll, doc_id) ==
    LET results == CollectionGet(coll, "doc_id", doc_id)
    IN  IF results # <<>>
        THEN [coll |-> CollectionDelete(coll, IdSet(results)), val |-> TRUE,
              raw |-> Ids(results)]
        ELSE [coll |-> coll, val |-> FALSE, raw |-> <<>>]

\* KnowledgeStore.clear
clear(coll) == <<>>

(* ------------------------- inputs of the calls ------------------------ *)
MaxDocs == 2
MaxTopK == 2

TitleT == <<Seg(7, 1)>>
TitleU == <<Seg(8, 2)>>

\* the document of the end-to-end scenario, with n words of content
DocD1(n) == [id |-> "d1", title |-> TitleT, content |-> Text(1, n, FALSE),
             category |-> "General"]

DocPool ==
    { DocD1(460),
      \* d1 again with other, shorter content and no category
      [id |-> "d1", title |-> TitleT, content |-> Text(2001, 3, TRUE), url |-> "u1"],
      [id |-> "d2", title |-> TitleU, content |-> Text(3001, 2, FALSE), url |-> "u2",
       category |-> "FAQ"],
      \* empty content
      [id |-> "d3", title |-> TitleU, content |-> <<>>, url |-> "u3", category |-> "FAQ"],
      \* content of whitespace only
      [id |-> "d2", title |-> TitleU, content |-> <<WS>>, url |-> "u2", category |-> "FAQ"] }

RECURSIVE SeqsUpTo(_, _)
SeqsUpTo(S, n) ==
    IF n = 0 THEN {<<>>}
    ELSE LET shorter == SeqsUpTo(S, n - 1)
         IN  shorter \cup {Append(q, x) : q \in shorter, x \in S}

DocLists == SeqsUpTo(DocPool, MaxDocs)
DocIds == {"d1", "d2", "d3", ""}
Queries == {TitleT, TitleU, <<>>}
Filters == {None, Some(""), Some("General"), Some("FAQ"), Some("Billing")}

(* ------------------------------ actions ------------------------------- *)
NoCall == [op |-> "init", arg |-> <<>>, err |-> FALSE, val |-> <<>>, raw |-> <<>>]

\* mock_history.py and sentiment.py right after import: nothing cached, no analyzer
InitHistoryVars == history_cache = <<>> /\ now = 0 /\ rng = <<>> /\ in_flight = <<>>
InitSentimentVars == vader_analyzer = None /\ transformer_analyzer = None

Init ==
    /\ collection = <<>>
    /\ ret = NoCall
    /\ hist = <<>>
    /\ InitHistoryVars
    /\ InitSentimentVars

IngestDocuments(documents) ==
    LET r == ingest_documents(collection, documents)
    IN  /\ collection' = r.coll
        /\ ret' = [op |-> "ingest_documents", arg |-> documents, err |-> FALSE,
                   val |-> r.val, raw |-> <<>>]
        /\ UNCHANGED <<historyVars, sentimentVars>>

Search(query, top_k, category_filter) ==
    LET r == search(collection, query, top_k, category_filter)
    IN  /\ collection' = collection
        /\ ret' = [op |-> "search",
                   arg |-> [query |-> query, top_k |-> top_k,
                            category_filter |-> category_filter],
                   err |-> r.err, val |-> r.val, raw |-> r.raw]
        /\ UNCHANGED <<historyVars, sentimentVars>>

GetStats ==
    /\ collection' = collection
    /\ ret' = [op |-> "get_stats", arg |-> <<>>, err |-> FALSE,
               val |-> get_stats(collection), raw |-> <<>>]
    /\ UNCHANGED <<historyVars, sentimentVars>>

DeleteDocument(doc_id) ==
    LET r == delete_document(collection, doc_id)
    IN  /\ collection' = r.coll
        /\ ret' = [op |-> "delete_document", arg |-> doc_id, err |-> FALSE,
                   val |-> r.val, raw |-> r.raw]
        /\ UNCHANGED <<historyVars, sentimentVars>>

Clear ==
    /\ collection' = clear(collection)
    /\ ret' = [op |-> "clear", arg |-> <<>>, err |-> FALSE, val |-> <<>>, raw |-> <<>>]
    /\ UNCHANGED <<historyVars, sentimentVars>>

Ingest == \E documents \in DocLists : IngestDocuments(documents) /\ UNCHANGED hist
\* top_k >= 1: the collection refuses a query for n_results <= 0
Query ==
    \E query \in Queries, top_k \in 1..MaxTopK, category_filter \in Filters :
        Search(query, top_k, category_filter) /\ UNCHANGED hist
Stats == GetStats /\ UNCHANGED hist
Delete == \E doc_id \in DocIds : DeleteDocument(doc_id) /\ UNCHANGED hist
ClearAll == Clear /\ UNCHANGED hist

Next == Ingest \/ Query \/ Stats \/ Delete \/ ClearAll

Spec == Init /\ [][Next]_vars

(* ------------------ chunk_text on its own (SpecChunk) ----------------- *)
ChunkParams ==
    { <<CHUNK_SIZE, CHUNK_OVERLAP>>,
      <<CHUNK_OVERLAP, CHUNK_OVERLAP>>,
      <<CHUNK_OVERLAP, CHUNK_SIZE>>,
      <<0, 0>> }

\* the calls of chunk_text considered: every text of up to MaxWords words, with
\* and without surrounding whitespace, under each pair of parameters
InitChunk ==
    /\ collection = <<>>
    /\ hist = <<>>
    /\ InitHistoryVars
    /\ InitSentimentVars
    /\ \E n \in 0..MaxWords, padded \in BOOLEAN, p \in ChunkParams :
          ret = [op |-> "call_chunk_text",
                 arg |-> [text |-> Text(1, n, padded), chunk_size |-> p[1],
                          overlap |-> p[2]],
                 err |-> FALSE, val |-> <<>>, raw |-> <<>>]

ChunkText ==
    /\ ret.op = "call_chunk_text"
    /\ LET r == chunk_text(ret.arg.text, ret.arg.chunk_size, ret.arg.overlap)
       IN  ret' = [ret EXCEPT !.op = "chunk_text", !.err = r.err, !.val = r.chunks]
    /\ UNCHANGED <<collection, hist, historyVars, sentimentVars>>

SpecChunk == InitChunk /\ [][ChunkText]_vars

(* ---------------- the end-to-end scenario (SpecE2E) ------------------- *)
Logged == [op |-> ret'.op, arg |-> ret'.arg, val |-> ret'.val]

E2EIngest ==
    /\ Len(hist) = 0
    /\ \E n \in 1..MaxWords : IngestDocuments(<<DocD1(n)>>)
    /\ hist' = Append(hist, Logged)

E2EStats ==
    /\ Len(hist) \in {1, 3}
    /\ GetStats
    /\ hist' = Append(hist, Logged)

E2EDelete ==
    /\ Len(hist) = 2
    /\ DeleteDocument("d1")
    /\ hist' = Append(hist, Logged)

NextE2E == E2EIngest \/ E2EStats \/ E2EDelete

SpecE2E == Init /\ [][NextE2E]_vars

(* ------------- one document at a time, then search (SpecFind) --------- *)
\* the documents above and one more that has the title and the content of the second
\* one under another id
FindPool ==
    DocPool \cup
    { [id |-> "d3", title |-> TitleT, content |-> Text(2001, 3, TRUE), url |-> "u1"] }

FindIngest == \E doc \in FindPool : IngestDocuments(<<doc>>) /\ UNCHANGED hist
FindQuery ==
    \E query \in {TitleT, TitleU}, top_k \in 1..MaxTopK :
        Search(query, top_k, None) /\ UNCHANGED hist
FindDelete == \E doc_id \in {"d1", "d3"} : DeleteDocument(doc_id) /\ UNCHANGED hist

NextFind == FindIngest \/ FindQuery \/ FindDelete

SpecFind == Init /\ [][NextFind]_vars

(* ---------- an index larger than the sample of get_stats (SpecStats) --- *)
\* a document of one word more than SAMPLE_LIMIT strides: it gives SAMPLE_LIMIT + 1
\* chunks
DocBig == [id |-> "big", title |-> TitleU,
           content |-> Text(5001, SAMPLE_LIMIT * (CHUNK_SIZE - CHUNK_OVERLAP) + 1, FALSE),
           category |-> "Guide"]
StatsPool == {DocBig} \cup FindPool

StatsIngest == \E doc \in StatsPool : IngestDocuments(<<doc>>) /\ UNCHANGED hist
StatsDelete == \E doc_id \in {"big"} \cup DocIds : DeleteDocument(doc_id) /\ UNCHANGED hist
StatsClear == Clear /\ UNCHANGED hist
StatsGet == GetStats /\ UNCHANGED hist

NextStats == StatsIngest \/ StatsDelete \/ StatsClear \/ StatsGet

SpecStats == Init /\ [][NextStats]_vars

(* ==================== mock_history.py: the generator ================== *)
\* Times are counted in ticks of ten minutes and scores in 1e-3 units; a score that
\* is not yet rounded is the fraction num / den of 1e-5 units.  A draw of
\* rng.random() is kept in thousandths (0..999), a draw of randint or choice as a
\* natural number.

TicksPerHour == 6
TicksPerDay == 24 * TicksPerHour

CUSTOMER_PERSONAS ==
    [satisfied_loyal |->
        [base_sentiment |-> 450, variance |-> 350, trend |-> "stable",
         interaction_frequency |-> "low"],
     frustrated_at_risk |->
        [base_sentiment |-> -150, variance |-> 500, trend |-> "declining",
         interaction_frequency |-> "medium"],
     new_curious |->
        [base_sentiment |-> 100, variance |-> 450, trend |-> "improving",
         interaction_frequency |-> "low"],
     volatile_mixed |->
        [base_sentiment |-> 0, variance |-> 600, trend |-> "volatile",
         interaction_frequency |-> "low"],
     recovering_churned |->
        [base_sentiment |-> 100, variance |-> 400, trend |-> "improving",
         interaction_frequency |-> "low"]]

\* list(CUSTOMER_PERSONAS.keys())
PersonaNames ==
    <<"satisfied_loyal", "frustrated_at_risk", "new_curious", "volatile_mixed",
      "recovering_churned">>

DEMO_CUSTOMERS ==
    ("CUST-12345" :> [name |-> "Sarah Johnson", tier |-> "Platinum",
                      persona |-> "recovering_churned"]) @@
    ("CUST-67890" :> [name |-> "Michael Chen", tier |-> "Gold",
                      persona |-> "satisfied_loyal"]) @@
    ("CUST-11111" :> [name |-> "Emily Rodriguez", tier |-> "Silver",
                      persona |-> "new_curious"]) @@
    ("CUST-22222" :> [name |-> "James Wilson", tier |-> "Enterprise",
                      persona |-> "volatile_mixed"]) @@
    ("CUST-33333" :> [name |-> "Amanda Foster", tier |-> "Gold",
                      persona |-> "recovering_churned"])

MOCK_DATA_VERSION == "v2"

\* _get_seeded_random: the generator seeded with the md5 of the versioned seed
\* string. streams maps a versioned seed string to everything that generator
\* draws: the same seed string always gives the same draws.
get_seeded_random(streams, seed_string) ==
    streams[MOCK_DATA_VERSION \o "_" \o seed_string]

\* rng.randint(a, b) and rng.uniform(a, b) = a + (b - a) * random() (a, b in 1e-3
\* units and b - a a multiple of 10, the result in 1e-5 units)
randint(a, b, draw) == a + (draw % (b - a + 1))
uniform(a, b, u) == 100 * a + ((b - a) * u) \div 10

\* round(num / den) to the nearest integer, den > 0; a tie goes to even (the float
\* the code rounds is in general not exactly the tie)
RoundDiv(num, den) ==
    LET q == num \div den
        r == num % den
    IN  IF 2 * r < den THEN q
        ELSE IF 2 * r > den THEN q + 1
        ELSE IF q % 2 = 0 THEN q ELSE q + 1

\* _generate_sentiment_score with the modifiers of the two trends exchanged
generate_sentiment_score_exchanged(d, base, variance, trend, progress) ==
    LET one == 100000 * progress.den
        trend_modifier ==
            IF trend = "declining" THEN -30000 * progress.den + 70000 * progress.num
            ELSE IF trend = "improving" THEN 30000 * progress.den - 70000 * progress.num
            ELSE IF trend = "volatile" THEN uniform(-300, 300, d.vol) * progress.den
            ELSE 0
        actual_variance == (variance * 6) \div 10
        score == 100 * base * progress.den + trend_modifier
                 + uniform(-actual_variance, actual_variance, d.noise) * progress.den
    IN  [num |-> Max(-one, Min(one, score)), den |-> progress.den]

\* _generate_sentiment_score; progress is the fraction num / den
generate_sentiment_score(d, base, variance, trend, progress) ==
    LET one == 100000 * progress.den
        trend_modifier ==
            IF trend = "improving" THEN -30000 * progress.den + 70000 * progress.num
            ELSE IF trend = "declining" THEN 30000 * progress.den - 70000 * progress.num
            ELSE IF trend = "volatile" THEN uniform(-300, 300, d.vol) * progress.den
            ELSE 0
        actual_variance == (variance * 6) \div 10
        score == 100 * base * progress.den + trend_modifier
                 + uniform(-actual_variance, actual_variance, d.noise) * progress.den
    IN  [num |-> Max(-one, Min(one, score)), den |-> progress.den]

\* _score_to_label
score_to_label(score) ==
    IF score.num >= 15000 * score.den THEN "positive"
    ELSE IF score.num <= -15000 * score.den THEN "negative"
    ELSE "neutral"

\* _get_interaction_count
get_interaction_count(draw, frequency, days) ==
    LET counts ==
            IF days <= 30 THEN [low |-> <<1, 2>>, medium |-> <<2, 2>>, high |-> <<2, 3>>]
            ELSE IF days <= 60 THEN [low |-> <<2, 3>>, medium |-> <<2, 3>>, high |-> <<3, 4>>]
            ELSE [low |-> <<3, 4>>, medium |-> <<3, 5>>, high |-> <<4, 5>>]
        c == Get(counts, frequency, <<3, 4>>)
    IN  randint(c[1], c[2], draw)

\* timedelta(days=rng.random() * days, hours=rng.randint(8, 20),
\*           minutes=rng.randint(0, 59)), in whole ticks
TimeOffset(t, days) ==
    (t.r * days * TicksPerDay) \div 1000 + TicksPerHour * randint(8, 20, t.hours)
        + randint(0, 59, t.minutes) \div 10

\* f"{i:04d}" for 0 <= i < 10000
Pad4(i) ==
    (IF i < 10 THEN "000" ELSE IF i < 100 THEN "00" ELSE IF i < 1000 THEN "0" ELSE "")
        \o ToString(i)

\* the persona generate_customer_history works with
ResolvePersona(customer_id, persona, stream) ==
    LET name == IF persona # None THEN persona[1]
                ELSE IF customer_id \in DOMAIN DEMO_CUSTOMERS
                     THEN DEMO_CUSTOMERS[customer_id].persona
                     ELSE PersonaNames[(stream.persona % Len(PersonaNames)) + 1]
    IN  Get(CUSTOMER_PERSONAS, name, CUSTOMER_PERSONAS.satisfied_loyal)

\* generate_customer_history; clock is datetime.now() at the call
generate_customer_history(streams, clock, customer_id, days, persona) ==
    LET stream == get_seeded_random(streams, customer_id \o "_" \o ToString(days))
        persona_config == ResolvePersona(customer_id, persona, stream)
        num_interactions ==
            get_interaction_count(stream.count, persona_config.interaction_frequency, days)
        start_date == clock - days * TicksPerDay
        timestamps ==
            SortSeq([i \in 1..num_interactions |->
                        start_date + TimeOffset(stream.times[i], days)],
                    LAMBDA a, b : a < b)
    IN  [i \in 1..num_interactions |->
            LET d == stream.draws[i]
                ts == timestamps[i]
                progress == [num |-> ts - start_date, den |-> days * TicksPerDay]
                score == generate_sentiment_score(d, persona_config.base_sentiment,
                                                  persona_config.variance,
                                                  persona_config.trend, progress)
                label == score_to_label(score)
            IN  [id |-> "INT-" \o customer_id \o "-" \o Pad4(i),
                 customer_id |-> customer_id,
                 timestamp |-> ts,
                 channel |-> d.channel,
                 sentiment_score |-> RoundDiv(score.num, 100 * score.den),
                 sentiment_label |-> label,
                 confidence |-> randint(65, 95, d.confidence),
                 summary |-> <<d.channel, label, d.summary>>,
                 agent_id |-> IF d.channel \in {"call", "chat"}
                              THEN Some("AGENT-" \o ToString(randint(100, 999, d.agent)))
                              ELSE None,
                 resolution |->
                     IF label = "positive" THEN "resolved"
                     ELSE IF label = "negative" /\ d.escalate > 600 THEN "escalated"
                     ELSE <<"resolved", "pending", "resolved">>[(d.resolution % 3) + 1]]]

(* ===================== mock_history.py: the summary =================== *)
RECURSIVE Sum(_)
Sum(s) == IF s = <<>> THEN 0 ELSE Head(s) + Sum(Tail(s))
Count(s, x) == Cardinality({i \in 1..Len(s) : s[i] = x})

\* the trend of calculate_sentiment_summary comparing the first score with the last
\* one whatever the length
Trend_ends(scores) ==
    LET diff == scores[Len(scores)] - scores[1]
    IN  IF diff > 150 THEN "improving"
        ELSE IF diff < -150 THEN "declining"
        ELSE "stable"

\* the trend of calculate_sentiment_summary: the means of the first and of the last
\* third compared (scores in 1e-3 units; both means have the divisor third)
Trend(scores) ==
    LET third == Max(1, Len(scores) \div 3)
        first_third == Sum(SubSeq(scores, 1, third))
        last_third == Sum(SubSeq(scores, Len(scores) - third + 1, Len(scores)))
        diff == last_third - first_third
    IN  IF diff > 150 * third THEN "improving"
        ELSE IF diff < -150 * third THEN "declining"
        ELSE "stable"

\* calculate_sentiment_summary
calculate_sentiment_summary(interactions) ==
    IF interactions = <<>>
    THEN [total_interactions |-> 0, average_sentiment |-> 0, trend |-> "stable",
          channel_breakdown |-> <<>>,
          sentiment_distribution |-> [positive |-> 0, neutral |-> 0, negative |-> 0],
          period_days |-> 0, last_interaction |-> None]
    ELSE
      LET n == Len(interactions)
          scores == [i \in 1..n |-> interactions[i].sentiment_score]
          labels == [i \in 1..n |-> interactions[i].sentiment_label]
          channels == [i \in 1..n |-> interactions[i].channel]
      IN  [total_interactions |-> n,
           average_sentiment |-> RoundDiv(Sum(scores), n),
           trend |-> Trend(scores),
           channel_breakdown |->
               [ch \in {channels[i] : i \in 1..n} |-> Count(channels, ch)],
           sentiment_distribution |->
               [positive |-> Count(labels, "positive"),
                neutral |-> Count(labels, "neutral"),
                negative |-> Count(labels, "negative")],
           period_days |->
               IF n >= 2
               THEN (interactions[n].timestamp - interactions[1].timestamp)
                        \div TicksPerDay
               ELSE 0,
           last_interaction |-> Some(interactions[n].timestamp)]

(* ====================== mock_history.py: the cache ==================== *)
\* clear_history_cache dropping one entry only
clear_history_cache_one(cache) ==
    IF DOMAIN cache = {} THEN cache
    ELSE LET gone == CHOOSE k \in DOMAIN cache : TRUE
         IN  [k \in DOMAIN cache \ {gone} |-> cache[k]]

\* clear_history_cache
clear_history_cache(cache) == <<>>

\* get_customer_history without the coercion of days
get_customer_history_any_days(cache, streams, clock, customer_id, days) ==
    LET cache_key == customer_id \o "_" \o ToString(days)
        interactions == generate_customer_history(streams, clock, customer_id, days, None)
        entry == [customer_id |-> customer_id,
                  customer_info |-> Get(DEMO_CUSTOMERS, customer_id,
                                        [name |-> "Unknown Customer"]),
                  interactions |-> interactions,
                  summary |-> calculate_sentiment_summary(interactions)]
        filled == IF cache_key \in DOMAIN cache THEN cache ELSE (cache_key :> entry) @@ cache
    IN  [cache |-> filled, val |-> filled[cache_key]]

\* get_customer_history generating anew at every call
get_customer_history_no_cache(cache, streams, clock, customer_id, days) ==
    LET d == IF days \in {30, 60, 90} THEN days ELSE 90
        cache_key == customer_id \o "_" \o ToString(d)
        interactions == generate_customer_history(streams, clock, customer_id, d, None)
        entry == [customer_id |-> customer_id,
                  customer_info |-> Get(DEMO_CUSTOMERS, customer_id,
                                        [name |-> "Unknown Customer"]),
                  interactions |-> interactions,
                  summary |-> calculate_sentiment_summary(interactions)]
        filled == (cache_key :> entry) @@ cache
    IN  [cache |-> filled, val |-> filled[cache_key]]

\* get_customer_history: the cache afterwards and the returned entry
get_customer_history(cache, streams, clock, customer_id, days) ==
    LET d == IF days \in {30, 60, 90} THEN days ELSE 90
        cache_key == customer_id \o "_" \o ToString(d)
        interactions == generate_customer_history(streams, clock, customer_id, d, None)
        entry == [customer_id |-> customer_id,
                  customer_info |-> Get(DEMO_CUSTOMERS, customer_id,
                                        [name |-> "Unknown Customer"]),
                  interactions |-> interactions,
                  summary |-> calculate_sentiment_summary(interactions)]
        filled == IF cache_key \in DOMAIN cache THEN cache ELSE (cache_key :> entry) @@ cache
    IN  [cache |-> filled, val |-> filled[cache_key]]

\* api.get_sentiment_history: days validated, then get_customer_history
get_sentiment_history(cache, streams, clock, customer_id, days) ==
    get_customer_history(cache, streams, clock, customer_id,
                         IF days \in {30, 60, 90} THEN days ELSE 90)

(* ------------------- the history engine's operations ------------------ *)
MaxClock == 1

\* a call of get_customer_history
GetHistory(customer_id, days) ==
    LET r == get_customer_history(history_cache, rng, now, customer_id, days)
    IN  /\ history_cache' = r.cache
        /\ ret' = [op |-> "get_history",
                   arg |-> [customer_id |-> customer_id, days |-> days],
                   err |-> FALSE, val |-> r.val, raw |-> <<>>]
        /\ UNCHANGED <<collection, now, rng, in_flight, sentimentVars>>

\* GET /api/sentiment/history/{customer_id}
GetSentimentHistory(customer_id, days) ==
    LET r == get_sentiment_history(history_cache, rng, now, customer_id, days)
    IN  /\ history_cache' = r.cache
        /\ ret' = [op |-> "get_sentiment_history",
                   arg |-> [customer_id |-> customer_id, days |-> days],
                   err |-> FALSE, val |-> r.val, raw |-> <<>>]
        /\ UNCHANGED <<collection, now, rng, in_flight, sentimentVars>>

\* POST /api/sentiment/reset-history
ResetHistory ==
    /\ history_cache' = clear_history_cache(history_cache)
    /\ ret' = [op |-> "reset_history", arg |-> <<>>, err |-> FALSE, val |-> <<>>,
               raw |-> <<>>]
    /\ UNCHANGED <<collection, now, rng, in_flight, sentimentVars>>

\* time passes
Tick ==
    /\ now < MaxClock
    /\ now' = now + 1
    /\ ret' = [op |-> "tick", arg |-> <<>>, err |-> FALSE, val |-> <<>>, raw |-> <<>>]
    /\ UNCHANGED <<collection, history_cache, rng, in_flight, sentimentVars>>

(* --------------- one generation on its own (SpecGenerate) ------------- *)
\* what the seeded generator may draw for one timestamp and for one interaction
TimeDrawList ==
    << [r |-> 0, hours |-> 0, minutes |-> 0],
       [r |-> 500, hours |-> 6, minutes |-> 30],
       [r |-> 999, hours |-> 12, minutes |-> 59] >>
InteractionDrawList ==
    << [channel |-> "call", vol |-> 0, noise |-> 0, confidence |-> 0, summary |-> 0,
        escalate |-> 999, resolution |-> 1, agent |-> 0],
       [channel |-> "email", vol |-> 500, noise |-> 500, confidence |-> 15, summary |-> 1,
        escalate |-> 600, resolution |-> 0, agent |-> 450],
       [channel |-> "survey", vol |-> 999, noise |-> 999, confidence |-> 30, summary |-> 2,
        escalate |-> 0, resolution |-> 2, agent |-> 899] >>
TimeDraws == {TimeDrawList[i] : i \in 1..Len(TimeDrawList)}
InteractionDraws == {InteractionDrawList[i] : i \in 1..Len(InteractionDrawList)}

\* the streams a generator seeded for (customer_id, days) may give: a persona and a
\* count draw, then as many time and interaction draws as the count asks for
StreamsFor(customer_id, days, personaDraws, countDraws) ==
    UNION { LET n == get_interaction_count(
                        c, ResolvePersona(customer_id, None,
                                          [persona |-> p]).interaction_frequency, days)
            IN  { [persona |-> p, count |-> c, times |-> t, draws |-> d] :
                    t \in [1..n -> TimeDraws], d \in [1..n -> InteractionDraws] } :
            p \in personaDraws, c \in countDraws }

GenerateCalls ==
    { [customer_id |-> "CUST-12345", days |-> 30],
      [customer_id |-> "CUST-12345", days |-> 60],
      [customer_id |-> "CUST-12345", days |-> 90],
      [customer_id |-> "CUST-22222", days |-> 30],
      [customer_id |-> "CUST-00000", days |-> 30] }

InitGenerate ==
    /\ collection = <<>>
    /\ hist = <<>>
    /\ InitSentimentVars
    /\ history_cache = <<>>
    /\ in_flight = <<>>
    /\ now \in {0, MaxClock}
    /\ \E call \in GenerateCalls :
          /\ ret = [op |-> "call_get_history", arg |-> call, err |-> FALSE,
                    val |-> <<>>, raw |-> <<>>]
          /\ \E stream \in StreamsFor(call.customer_id, call.days, 0..1, 0..1) :
                rng = (MOCK_DATA_VERSION \o "_" \o call.customer_id \o "_"
                          \o ToString(call.days)) :> stream

GenerateOnce ==
    /\ ret.op = "call_get_history"
    /\ GetHistory(ret.arg.customer_id, ret.arg.days)
    /\ UNCHANGED hist

SpecGenerate == InitGenerate /\ [][GenerateOnce]_vars

(* ------- one generation with finer draws of the score (SpecRecord) ---- *)
\* get_history("CUST-22222", 30), whose persona is volatile_mixed: one
\* interaction, its score 0 + uniform(-0.3, 0.3) + uniform(-0.36, 0.36); the
\* draws of the two uniforms, in thousandths
VolDraws == {0, 154, 500, 846, 999}
NoiseDraws == {0, 3, 4, 5} \cup 495..505 \cup 990..999

InitRecord ==
    /\ collection = <<>>
    /\ hist = <<>>
    /\ InitSentimentVars
    /\ history_cache = <<>>
    /\ in_flight = <<>>
    /\ now = 0
    /\ ret = [op |-> "call_get_history",
              arg |-> [customer_id |-> "CUST-22222", days |-> 30], err |-> FALSE,
              val |-> <<>>, raw |-> <<>>]
    /\ \E t \in TimeDraws, v \in VolDraws, n \in NoiseDraws :
          rng = (MOCK_DATA_VERSION \o "_CUST-22222_30") :>
                    [persona |-> 0, count |-> 0, times |-> <<t>>,
                     draws |-> <<[InteractionDrawList[1] EXCEPT !.vol = v, !.noise = n]>>]

SpecRecord == InitRecord /\ [][GenerateOnce]_vars

(* ------------- the cache over many calls (SpecHistory) ---------------- *)
\* the calls made: a demo customer and an unknown one, days in and out of {30, 60, 90}
HistoryCalls ==
    { <<"CUST-12345", 30>>, <<"CUST-12345", 90>>, <<"CUST-12345", 45>>,
      <<"CUST-00000", 90>>, <<"CUST-00000", 0>> }
Seed(call) == MOCK_DATA_VERSION \o "_" \o call[1] \o "_" \o ToString(call[2])

\* Two assignments of draws to the seed strings: the stream of a seed string is
\* fixed by the string, whatever the time and the cache
MaxInteractions == 5
World(w) ==
    [s \in {Seed(call) : call \in HistoryCalls} |->
        LET call == CHOOSE c \in HistoryCalls : Seed(c) = s
            k == w + call[2] \div 15 + (IF call[1] = "CUST-12345" THEN 0 ELSE 1)
        IN  [persona |-> k, count |-> k,
             times |-> [i \in 1..MaxInteractions |->
                           TimeDrawList[((k + i) % Len(TimeDrawList)) + 1]],
             draws |-> [i \in 1..MaxInteractions |->
                           InteractionDrawList[((2 * k + i) % Len(InteractionDrawList)) + 1]]]]
Worlds == {World(w) : w \in 0..1}

InitHistory ==
    /\ collection = <<>>
    /\ ret = NoCall
    /\ hist = <<>>
    /\ InitSentimentVars
    /\ history_cache = <<>>
    /\ in_flight = <<>>
    /\ now = 0
    /\ rng \in Worlds

\* hist keeps, for each pair of arguments, what the last call with them returned
\* since the last reset
HistoryGet ==
    \E call \in HistoryCalls :
        /\ GetHistory(call[1], call[2])
        /\ hist' = (call :> ret'.val) @@ hist
HistoryGetApi ==
    \E call \in HistoryCalls :
        /\ GetSentimentHistory(call[1], call[2])
        /\ hist' = (call :> ret'.val) @@ hist
HistoryReset == ResetHistory /\ hist' = <<>>
HistoryTick == Tick /\ UNCHANGED hist

NextHistory == HistoryGet \/ HistoryGetApi \/ HistoryReset \/ HistoryTick

SpecHistory == InitHistory /\ [][NextHistory]_vars

(* ------- generate, reset, generate again (SpecRegenerate) ------------- *)
Regenerate1 ==
    /\ hist = <<>>
    /\ \E call \in HistoryCalls : GetHistory(call[1], call[2])
    /\ hist' = Append(hist, Logged)

RegenerateReset ==
    /\ Len(hist) = 1
    /\ ResetHistory
    /\ hist' = Append(hist, Logged)

RegenerateTick == Tick /\ UNCHANGED hist

Regenerate2 ==
    /\ Len(hist) = 2
    /\ GetHistory(hist[1].arg.customer_id, hist[1].arg.days)
    /\ hist' = Append(hist, Logged)

NextRegenerate == Regenerate1 \/ RegenerateReset \/ RegenerateTick \/ Regenerate2

SpecRegenerate == InitHistory /\ [][NextRegenerate]_vars

(* ------ calculate_sentiment_summary on its own (SpecSummary) ---------- *)
MaxScores == 6
ScoreDraws == {-160, 0, 150, 200}

\* an interaction record with the given score, the i-th of its list
InteractionOf(score, i) ==
    [id |-> "INT-CUST-00000-" \o Pad4(i), customer_id |-> "CUST-00000",
     timestamp |-> i * TicksPerDay, channel |-> "call", sentiment_score |-> score,
     sentiment_label |-> score_to_label([num |-> 100 * score, den |-> 1]),
     confidence |-> 65, summary |-> <<"call", "neutral", 0>>, agent_id |-> None,
     resolution |-> "resolved"]

\* the calls considered: every list of up to MaxScores interactions with scores
\* among ScoreDraws
InitSummary ==
    /\ collection = <<>>
    /\ hist = <<>>
    /\ InitHistoryVars
    /\ InitSentimentVars
    /\ \E n \in 0..MaxScores :
          \E scores \in [1..n -> ScoreDraws] :
              ret = [op |-> "call_calculate_sentiment_summary",
                     arg |-> [i \in 1..n |-> InteractionOf(scores[i], i)],
                     err |-> FALSE, val |-> <<>>, raw |-> <<>>]

Summarize ==
    /\ ret.op = "call_calculate_sentiment_summary"
    /\ ret' = [ret EXCEPT !.op = "calculate_sentiment_summary",
                          !.val = calculate_sentiment_summary(ret.arg)]
    /\ UNCHANGED <<collection, hist, historyVars, sentimentVars>>

SpecSummary == InitSummary /\ [][Summarize]_vars

(* -------- get_customer_history called from several threads ----------- *)
\* A call in flight is at one of the places where another thread can run
\* before it goes on: after the test of the cache ("generate" on a miss,
\* "return" on a hit), after the entry is built ("store"), after it is stored
\* ("return").
Threads == {"t1", "t2"}
ConcurrentCalls == { <<"CUST-12345", 90>>, <<"CUST-12345", 45>>, <<"CUST-00000", 90>> }

\* lines 501-506: days coerced, the key built, the cache tested
HistoryBegin(t, call) ==
    LET d == IF call[2] \in {30, 60, 90} THEN call[2] ELSE 90
        cache_key == call[1] \o "_" \o ToString(d)
    IN  /\ t \notin DOMAIN in_flight
        /\ in_flight' = (t :> [pc |-> IF cache_key \in DOMAIN history_cache
                                      THEN "return" ELSE "generate",
                               customer_id |-> call[1], days |-> d,
                               cache_key |-> cache_key, entry |-> None]) @@ in_flight
        /\ ret' = [op |-> "begin_get_history", arg |-> <<t, call>>, err |-> FALSE,
                   val |-> <<>>, raw |-> <<>>]
        /\ UNCHANGED <<collection, history_cache, now, rng, sentimentVars>>

\* lines 507-508 and the right-hand side of 510-515: the entry built at the
\* time the thread reaches generate_customer_history
HistoryGenerate(t) ==
    /\ t \in DOMAIN in_flight /\ in_flight[t].pc = "generate"
    /\ LET c == in_flight[t]
           interactions == generate_customer_history(rng, now, c.customer_id, c.days, None)
           entry == [customer_id |-> c.customer_id,
                     customer_info |-> Get(DEMO_CUSTOMERS, c.customer_id,
                                           [name |-> "Unknown Customer"]),
                     interactions |-> interactions,
                     summary |-> calculate_sentiment_summary(interactions)]
       IN  in_flight' = [in_flight EXCEPT ![t] = [c EXCEPT !.pc = "store",
                                                          !.entry = Some(entry)]]
    /\ ret' = [op |-> "generate_history", arg |-> t, err |-> FALSE,
               val |-> <<>>, raw |-> <<>>]
    /\ UNCHANGED <<collection, history_cache, now, rng, sentimentVars>>

\* line 510: _history_cache[cache_key] = entry
HistoryStore(t) ==
    /\ t \in DOMAIN in_flight /\ in_flight[t].pc = "store"
    /\ history_cache' = [k \in DOMAIN history_cache \cup {in_flight[t].cache_key} |->
                            IF k = in_flight[t].cache_key THEN in_flight[t].entry[1]
                            ELSE history_cache[k]]
    /\ in_flight' = [in_flight EXCEPT ![t].pc = "return"]
    /\ ret' = [op |-> "store_history", arg |-> t, err |-> FALSE,
               val |-> <<>>, raw |-> <<>>]
    /\ UNCHANGED <<collection, now, rng, sentimentVars>>

\* line 517: return _history_cache[cache_key]
HistoryReturn(t) ==
    /\ t \in DOMAIN in_flight /\ in_flight[t].pc = "return"
    /\ in_flight' = [u \in DOMAIN in_flight \ {t} |-> in_flight[u]]
    /\ ret' = [op |-> "get_history",
               arg |-> [customer_id |-> in_flight[t].customer_id,
                        days |-> in_flight[t].days],
               err |-> FALSE, val |-> history_cache[in_flight[t].cache_key],
               raw |-> <<>>]
    /\ UNCHANGED <<collection, history_cache, now, rng, sentimentVars>>

\* hist keeps, for each cache key, every value a call has returned for it
Returned(h, key) == IF key \in DOMAIN h THEN h[key] ELSE {}
ConcurrentBegin ==
    \E t \in Threads, call \in ConcurrentCalls : HistoryBegin(t, call) /\ UNCHANGED hist
ConcurrentGenerate == \E t \in Threads : HistoryGenerate(t) /\ UNCHANGED hist
ConcurrentStore == \E t \in Threads : HistoryStore(t) /\ UNCHANGED hist
ConcurrentReturn ==
    \E t \in Threads :
        /\ HistoryReturn(t)
        /\ hist' = LET key == in_flight[t].cache_key
                   IN  (key :> (Returned(hist, key) \cup {ret'.val})) @@ hist
ConcurrentTick == Tick /\ UNCHANGED hist

NextConcurrent ==
    ConcurrentBegin \/ ConcurrentGenerate \/ ConcurrentStore \/ ConcurrentReturn
        \/ ConcurrentTick

SpecConcurrent == InitHistory /\ [][NextConcurrent]_vars

(* ============================ sentiment.py ============================ *)
\* Scores are in units of 1e-4 (what round(x, 4) keeps), confidences in tenths of
\* a percent (what round(x, 1) keeps).
SentimentProvider == [VADER |-> "vader", TRANSFORMER |-> "transformer"]

SentimentResult(provider, sentiment, score, confidence, processing_time_ms, breakdown) ==
    [provider |-> provider, sentiment |-> sentiment, score |-> score,
     confidence |-> confidence, processing_time_ms |-> processing_time_ms,
     breakdown |-> breakdown]

\* str.strip(): a string has at most one whitespace run at each end
strip(s) ==
    LET a == IF s # <<>> /\ Head(s) = WS THEN Tail(s) ELSE s
    IN  IF a # <<>> /\ a[Len(a)] = WS THEN SubSeq(a, 1, Len(a) - 1) ELSE a

Abs(x) == IF x < 0 THEN -x ELSE x

\* VaderSentimentAnalyzer(), TransformerSentimentAnalyzer(): nothing loaded yet
VaderSentimentAnalyzer == [analyzer |-> None]
TransformerSentimentAnalyzer ==
    [classifier |-> None,
     model_name |-> "distilbert-base-uncased-finetuned-sst-2-english"]

\* VaderSentimentAnalyzer._ensure_loaded: importable says whether the import of
\* vaderSentiment succeeds; err is the message of the ImportError raised, events
\* tells whether SentimentIntensityAnalyzer() was built
Vader_ensure_loaded(self, importable) ==
    IF self.analyzer # None THEN [self |-> self, err |-> None, events |-> <<>>]
    ELSE IF importable
    THEN [self |-> [self EXCEPT !.analyzer = Some("SentimentIntensityAnalyzer")],
          err |-> None, events |-> <<"load">>]
    ELSE [self |-> self,
          err |-> Some("vaderSentiment not installed. Run: pip install vaderSentiment"),
          events |-> <<"load_failed">>]

\* VaderSentimentAnalyzer.analyze past _ensure_loaded: scores is what
\* polarity_scores returns, elapsed the milliseconds measured
Vader_result(scores, elapsed) ==
    LET compound == scores.compound
        sentiment == IF compound >= 500 THEN "positive"
                     ELSE IF compound <= -500 THEN "negative"
                     ELSE "neutral"
        abs_compound == Abs(compound)
        confidence == IF abs_compound >= 6000
                      THEN Min(950 * 100, 750 * 100 + abs_compound * 3)
                      ELSE IF abs_compound >= 3000 THEN 550 * 100 + abs_compound * 4
                      ELSE 400 * 100 + abs_compound * 5
    IN  SentimentResult("vader", sentiment, compound, RoundDiv(confidence, 100), elapsed,
                        [positive |-> scores.pos, neutral |-> scores.neu,
                         negative |-> scores.neg, compound |-> scores.compound])

\* VaderSentimentAnalyzer.analyze; env.error is the message of the exception
\* polarity_scores raises, if it raises one
Vader_analyze(self, text, env) ==
    LET l == Vader_ensure_loaded(self, env.importable)
    IN  IF l.err # None
        THEN [self |-> l.self, err |-> l.err, val |-> None, events |-> l.events]
        ELSE IF env.error # None
        THEN [self |-> l.self, err |-> env.error, val |-> None,
              events |-> l.events \o <<"analyze_failed">>]
        ELSE [self |-> l.self, err |-> None,
              val |-> Some(Vader_result(env.scores, env.elapsed)),
              events |-> l.events \o <<"analyze">>]

\* TransformerSentimentAnalyzer._ensure_loaded: importable says whether the
\* pipeline of transformers can be built
Transformer_ensure_loaded(self, importable) ==
    IF self.classifier # None THEN [self |-> self, err |-> None, events |-> <<>>]
    ELSE IF importable
    THEN [self |-> [self EXCEPT !.classifier = Some("pipeline")], err |-> None,
          events |-> <<"load">>]
    ELSE [self |-> self, err |-> Some("Failed to load transformer model"),
          events |-> <<"load_failed">>]

\* str.upper() on the label names a classifier may give
upper(label) ==
    IF label = "positive" THEN "POSITIVE"
    ELSE IF label = "negative" THEN "NEGATIVE" ELSE label

\* TransformerSentimentAnalyzer.analyze with the neutral cut-off applied to the
\* rounded probability
Transformer_result_rounded_cut(self, prediction, elapsed) ==
    LET label == upper(prediction.label)
        score_raw == prediction.score
        low == RoundDiv(score_raw, 10) < 6000
        sentiment == IF low THEN "neutral"
                     ELSE IF label = "POSITIVE" THEN "positive" ELSE "negative"
        score == IF low THEN 0
                 ELSE IF label = "POSITIVE" THEN score_raw ELSE -score_raw
    IN  SentimentResult("transformer", sentiment, RoundDiv(score, 10),
                        RoundDiv(score_raw, 100), elapsed,
                        [label |-> label, raw_score |-> RoundDiv(score_raw, 10),
                         model |-> self.model_name])

\* TransformerSentimentAnalyzer.analyze past _ensure_loaded: prediction is the
\* first element of what the classifier returns, its score a probability in
\* units of 1e-5 (the classifier is given text[:512]; its answer is an input
\* here)
Transformer_result(self, prediction, elapsed) ==
    LET label == upper(prediction.label)
        score_raw == prediction.score
        low == score_raw < 60000
        sentiment == IF low THEN "neutral"
                     ELSE IF label = "POSITIVE" THEN "positive" ELSE "negative"
        score == IF low THEN 0
                 ELSE IF label = "POSITIVE" THEN score_raw ELSE -score_raw
    IN  SentimentResult("transformer", sentiment, RoundDiv(score, 10),
                        RoundDiv(score_raw, 100), elapsed,
                        [label |-> label, raw_score |-> RoundDiv(score_raw, 10),
                         model |-> self.model_name])

\* TransformerSentimentAnalyzer.analyze; env.error is the message of the
\* exception the classifier raises, if it raises one
Transformer_analyze(self, text, env) ==
    LET l == Transformer_ensure_loaded(self, env.importable)
    IN  IF l.err # None
        THEN [self |-> l.self, err |-> l.err, val |-> None, events |-> l.events]
        ELSE IF env.error # None
        THEN [self |-> l.self, err |-> env.error, val |-> None,
              events |-> l.events \o <<"analyze_failed">>]
        ELSE [self |-> l.self, err |-> None,
              val |-> Some(Transformer_result(l.self, env.prediction, env.elapsed)),
              events |-> l.events \o <<"analyze">>]

\* get_vader_analyzer building a new analyzer at every call
get_vader_analyzer_fresh(va) == Some(VaderSentimentAnalyzer)

\* get_vader_analyzer, get_transformer_analyzer: the singleton after the call
get_vader_analyzer(va) == IF va = None THEN Some(VaderSentimentAnalyzer) ELSE va
get_transformer_analyzer(ta) ==
    IF ta = None THEN Some(TransformerSentimentAnalyzer) ELSE ta
\* whether the getter built the object it returns
Created(before, after) == IF before = None /\ after # None THEN <<"create">> ELSE <<>>

\* analyze_with_provider dropping both singletons when the selected one fails
analyze_with_provider_drop(va, ta, text, provider, env) ==
    LET g == IF provider = SentimentProvider.VADER
             THEN get_vader_analyzer(va) ELSE get_transformer_analyzer(ta)
        a == IF provider = SentimentProvider.VADER
             THEN Vader_analyze(g[1], text, env) ELSE Transformer_analyze(g[1], text, env)
        before == IF provider = SentimentProvider.VADER THEN va ELSE ta
    IN  IF a.err # None
        THEN [vader_analyzer |-> None, transformer_analyzer |-> None,
              calls |-> <<provider>>, events |-> Created(before, g) \o a.events,
              val |-> SentimentResult(provider, "neutral", 0, 0, 0, [error |-> a.err[1]])]
        ELSE [vader_analyzer |-> IF provider = SentimentProvider.VADER
                                 THEN Some(a.self) ELSE va,
              transformer_analyzer |-> IF provider = SentimentProvider.VADER
                                       THEN ta ELSE Some(a.self),
              calls |-> <<provider>>, events |-> Created(before, g) \o a.events,
              val |-> a.val[1]]

\* the result of analyze_sentiment for a text its first test lets through: the
\* two singletons after the call, the result, and the analyzers called
analyze_with_provider(va, ta, text, provider, env) ==
    IF provider = SentimentProvider.VADER
    THEN LET g == get_vader_analyzer(va)
             a == Vader_analyze(g[1], text, env)
         IN  [vader_analyzer |-> Some(a.self), transformer_analyzer |-> ta,
              calls |-> <<"vader">>, events |-> Created(va, g) \o a.events,
              val |-> IF a.err = None THEN a.val[1]
                      ELSE SentimentResult(provider, "neutral", 0, 0, 0,
                                           [error |-> a.err[1]])]
    ELSE LET g == get_transformer_analyzer(ta)
             a == Transformer_analyze(g[1], text, env)
         IN  [vader_analyzer |-> va, transformer_analyzer |-> Some(a.self),
              calls |-> <<"transformer">>, events |-> Created(ta, g) \o a.events,
              val |-> IF a.err = None THEN a.val[1]
                      ELSE SentimentResult(provider, "neutral", 0, 0, 0,
                                           [error |-> a.err[1]])]

\* the answer of analyze_sentiment to a text with nothing to analyze
EmptyTextResult(va, ta, provider) ==
    [vader_analyzer |-> va, transformer_analyzer |-> ta, calls |-> <<>>,
     events |-> <<>>,
     val |-> SentimentResult(provider, "neutral", 0, 500, 0,
                             [error |-> "Empty text provided"])]

\* analyze_sentiment testing only `not text`
analyze_sentiment_no_strip(va, ta, text, provider, env) ==
    IF text = <<>> THEN EmptyTextResult(va, ta, provider)
    ELSE analyze_with_provider(va, ta, text, provider, env)

\* analyze_sentiment
analyze_sentiment(va, ta, text, provider, env) ==
    IF text = <<>> \/ strip(text) = <<>> THEN EmptyTextResult(va, ta, provider)
    ELSE analyze_with_provider(va, ta, text, provider, env)

\* what the libraries answer to one call
CompoundDraws == {-7000, -3000, -500, -499, 0, 500, 6000, 10000}
ScoresOf(c) ==
    [pos |-> IF c > 0 THEN Abs(c) \div 2 ELSE 0,
     neg |-> IF c < 0 THEN Abs(c) \div 2 ELSE 0,
     neu |-> 10000 - Abs(c) \div 2, compound |-> c]
PredictionDraws ==
    [label : {"POSITIVE", "NEGATIVE"}, score : {59000, 59999, 60000, 61234, 99987}]
ErrorDraws == {None, Some("analysis failed")}
VaderEnvs ==
    {[importable |-> i, error |-> x, scores |-> ScoresOf(c), elapsed |-> e] :
        i \in BOOLEAN, x \in ErrorDraws, c \in CompoundDraws, e \in {4}}
TransformerEnvs ==
    {[importable |-> i, error |-> x, prediction |-> p, elapsed |-> e] :
        i \in BOOLEAN, x \in ErrorDraws, p \in PredictionDraws, e \in {120}}
SentimentEnvs(provider) ==
    IF provider = SentimentProvider.VADER THEN VaderEnvs ELSE TransformerEnvs

AnalyzeSentiment(text, provider) ==
    \E env \in SentimentEnvs(provider) :
        LET r == analyze_sentiment(vader_analyzer, transformer_analyzer, text, provider, env)
        IN  /\ vader_analyzer' = r.vader_analyzer
            /\ transformer_analyzer' = r.transformer_analyzer
            /\ ret' = [op |-> "analyze_sentiment",
                       arg |-> [text |-> text, provider |-> provider],
                       err |-> FALSE, val |-> r.val, raw |-> <<>>, calls |-> r.calls,
                       events |-> r.events,
                       env |-> [importable |-> env.importable, error |-> env.error]]
            /\ UNCHANGED <<collection, historyVars>>

\* POST /api/sentiment/analyze: any provider name but "transformer" selects VADER
AnalyzeTextSentiment(request) ==
    LET provider == IF request.provider = "transformer"
                    THEN SentimentProvider.TRANSFORMER ELSE SentimentProvider.VADER
    IN  \E env \in SentimentEnvs(provider) :
        LET r == analyze_sentiment(vader_analyzer, transformer_analyzer,
                                   request.text, provider, env)
        IN  /\ vader_analyzer' = r.vader_analyzer
            /\ transformer_analyzer' = r.transformer_analyzer
            /\ ret' = [op |-> "analyze_text_sentiment", arg |-> request,
                       err |-> FALSE, val |-> r.val, raw |-> <<>>, calls |-> r.calls,
                       events |-> r.events,
                       env |-> [importable |-> env.importable, error |-> env.error]]
            /\ UNCHANGED <<collection, historyVars>>

(* ------------------- the sentiment entry point alone ------------------ *)
SentimentTexts == {<<>>, <<WS>>, Text(3, 2, TRUE)}

\* what has happened to each provider since the process started: how often its
\* singleton was built and its model loaded, and whether its last call failed
NoUse == [used |-> FALSE, created |-> 0, loads |-> 0, failed |-> FALSE]
UseOf(h, p) == IF p \in DOMAIN h THEN h[p] ELSE NoUse
Occurrences(events, e) == Len(SelectSeq(events, LAMBDA x : x = e))
Observe(h, r) ==
    IF r.calls = <<>> THEN h
    ELSE LET p == r.calls[1]
             u == UseOf(h, p)
         IN  (p :> [used |-> TRUE,
                    created |-> u.created + Occurrences(r.events, "create"),
                    loads |-> u.loads + Occurrences(r.events, "load"),
                    failed |-> "error" \in DOMAIN r.val.breakdown]) @@ h

SentimentAnalyze ==
    \E text \in SentimentTexts, provider \in {"vader", "transformer"} :
        AnalyzeSentiment(text, provider) /\ hist' = Observe(hist, ret')

SentimentAnalyzeApi ==
    \E request \in [text : SentimentTexts, provider : {"vader", "transformer", "gpt"}] :
        AnalyzeTextSentiment(request) /\ hist' = Observe(hist, ret')

NextSentiment == SentimentAnalyze \/ SentimentAnalyzeApi

SpecSentiment == Init /\ [][NextSentiment]_vars

(* ------------------- the model-based provider alone ------------------- *)
\* the answers of the classifier considered: probabilities in units of 1e-5
\* around the neutral cut-off and up to 1, under each label
MaxProbability == 60010
ProbabilityDraws == 59990..MaxProbability \cup {50000, 59000, 61000, 61234, 99987, 100000}
LabelDraws == {"POSITIVE", "NEGATIVE", "positive", "negative"}

InitTransformer ==
    /\ collection = <<>>
    /\ hist = <<>>
    /\ InitHistoryVars
    /\ vader_analyzer = None
    /\ transformer_analyzer =
          Some(Transformer_ensure_loaded(TransformerSentimentAnalyzer, TRUE).self)
    /\ \E label \in LabelDraws, score \in ProbabilityDraws :
          ret = [op |-> "call_transformer_analyze",
                 arg |-> [label |-> label, score |-> score],
                 err |-> FALSE, val |-> <<>>, raw |-> <<>>]

TransformerAnalyze ==
    /\ ret.op = "call_transformer_analyze"
    /\ ret' = [ret EXCEPT !.op = "transformer_analyze",
                          !.val = Transformer_result(transformer_analyzer[1], ret.arg, 120)]
    /\ UNCHANGED <<collection, hist, historyVars, sentimentVars>>

SpecTransformer == InitTransformer /\ [][TransformerAnalyze]_vars

(* ====================== properties of chunk_text ====================== *)
\* the number of words of a text, counted on the text itself
RECURSIVE NWords(_)
NWords(text) == IF text = <<>> THEN 0 ELSE Head(text).n + NWords(Tail(text))
\* words[:n] and words[-n:] of a list of words, n >= 1
FirstN(w, n) == Take(w, n)
LastN(w, n) == Drop(w, NWords(w) - n)

DefaultChunkCall ==
    /\ ret.op = "chunk_text"
    /\ ret.arg.chunk_size = 500
    /\ ret.arg.overlap = 50

\* C1: a text of N >= 1 words is cut, with chunk_size=500 and overlap=50, into exactly
\* ceil(N / 450) chunks; chunk k is the words 450*k .. min(450*k + 500, N) - 1 of the
\* text (0-based), so it starts at word 450*k and holds at most 500 words.
C1_ChunkCount ==
    (DefaultChunkCall /\ NWords(ret.arg.text) >= 1) =>
        LET N == NWords(ret.arg.text)
        IN  /\ ~ret.err
            /\ Len(ret.val) = (N + 449) \div 450
            /\ \A k \in 0..(Len(ret.val) - 1) :
                  /\ ret.val[k + 1] = join(Words(450 * k + 1, Min(500, N - 450 * k)))
                  /\ NWords(ret.val[k + 1]) <= 500

\* C1 witness: a padded text of 901 words was cut into three chunks
C1_Witness ==
    /\ DefaultChunkCall
    /\ NWords(ret.arg.text) = 901
    /\ Head(ret.arg.text) = WS
    /\ Len(ret.val) = 3

\* C2 as stated: of any two consecutive chunks, the last 50 words of the first are
\* exactly the first 50 words of the second.
C2_Original ==
    DefaultChunkCall =>
        \A k \in 1..(Len(ret.val) - 1) :
            LastN(split(ret.val[k]), 50) = FirstN(split(ret.val[k + 1]), 50)

\* C2 amended: of any two consecutive chunks, the last m words of the first are
\* exactly the first m words of the second, where m is 50 when the second chunk holds
\* at least 50 words and the whole of the second chunk when it holds fewer.
C2_Overlap ==
    DefaultChunkCall =>
        \A k \in 1..(Len(ret.val) - 1) :
            LET a == split(ret.val[k])
                b == split(ret.val[k + 1])
                m == Min(50, NWords(b))
            IN  /\ m >= 1
                /\ NWords(a) >= m
                /\ LastN(a, m) = FirstN(b, m)
                /\ (k + 1 < Len(ret.val) => m = 50)

\* C2 witness: a text of 460 words gave a second chunk of 10 words, all of them the
\* last 10 words of the first chunk
C2_Witness ==
    /\ DefaultChunkCall
    /\ NWords(ret.arg.text) = 460
    /\ Len(ret.val) = 2
    /\ NWords(ret.val[2]) = 10

\* C7 as stated: chunk_text with chunk_size - overlap <= 0 ends in an error and
\* returns no chunk list.
C7_StrideRejected ==
    (ret.op = "chunk_text" /\ ret.arg.chunk_size - ret.arg.overlap <= 0) => ret.err

(* ================== properties of the end-to-end run ================== *)
\* the scenario was started with the 460-word document d1
Run460 == Len(hist) >= 1 /\ hist[1].arg = <<DocD1(460)>>

\* C3: from an empty index, ingesting d1 with 460 words creates exactly the chunks
\* d1_chunk_0 and d1_chunk_1; get_stats then reports total_chunks = 2;
\* delete_document("d1") then returns true; get_stats then reports total_chunks = 0.
C3_EndToEnd ==
    Run460 =>
        /\ Len(hist) = 1 => Ids(collection) = <<"d1_chunk_0", "d1_chunk_1">>
        /\ Len(hist) >= 2 => hist[2].op = "get_stats" /\ hist[2].val.total_chunks = 2
        /\ Len(hist) >= 3 => hist[3].op = "delete_document" /\ hist[3].val = TRUE
        /\ Len(hist) >= 4 => hist[4].op = "get_stats" /\ hist[4].val.total_chunks = 0
                             /\ collection = <<>>

\* C3 witness: the scenario ran to its end on the 460-word document
C3_Witness ==
    /\ Run460
    /\ Len(hist) = 4
    /\ hist[1].val.chunks_created = 2
    /\ ret.op = "get_stats"

(* ================= properties of the index operations ================= *)
HasDoc(coll, doc_id) == \E i \in 1..Len(coll) : coll[i].metadata.doc_id = doc_id

Reingest(coll, documents) ==
    \E i \in 1..Len(documents) :
        /\ Get(documents[i], "content", <<>>) # <<>>
        /\ HasDoc(coll, Get(documents[i], "id", ""))

\* C5 as stated: ingesting a document whose id is already in the index keeps every
\* stored chunk and appends the new ones: the chunk count grows by chunks_created.
C5_ReingestAppends ==
    [][(ret'.op = "ingest_documents" /\ Reingest(collection, ret'.arg)) =>
          /\ Len(collection') = Len(collection) + ret'.val.chunks_created
          /\ SubSeq(collection', 1, Len(collection)) = collection]_vars

NonEmptyDocs(documents) == SelectSeq(documents, LAMBDA d : Get(d, "content", <<>>) # <<>>)

\* C6: a call of ingest_documents does to the index, and returns, exactly what the
\* same call without its empty-content documents does: such a document adds no chunk
\* and is counted in neither documents_ingested nor chunks_created, and every chunk
\* id of every other document of the call is in the index afterwards.
C6_EmptySkipped ==
    [][ret'.op = "ingest_documents" =>
          LET kept == NonEmptyDocs(ret'.arg)
              r == ingest_documents(collection, kept)
          IN  /\ collection' = r.coll
              /\ ret'.val = r.val
              /\ ret'.val.documents_ingested = Len(kept)
              /\ \A j \in (Len(collection) + 1)..Len(collection') :
                    \E i \in 1..Len(kept) :
                        /\ collection'[j].metadata.doc_id = kept[i].id
                        /\ collection'[j].metadata.title = kept[i].title
              /\ \A i \in 1..Len(kept) :
                    \A k \in 1..((NWords(kept[i].content) + 449) \div 450) :
                        ChunkId(kept[i].id, k - 1) \in IdSet(collection')]_vars

\* C6 witness: a call with an empty-content document and the 460-word document
\* counted one document and two chunks, and the index holds those two chunks only
C6_Witness ==
    /\ ret.op = "ingest_documents"
    /\ Len(ret.arg) = 2
    /\ ret.arg[1].content = <<>>
    /\ ret.arg[2] = DocD1(460)
    /\ ret.val.documents_ingested = 1
    /\ ret.val.chunks_created = 2
    /\ Ids(collection) = <<"d1_chunk_0", "d1_chunk_1">>

(* ======================== properties of search ======================== *)
\* no stored chunk has the category the filter names
NoMatch(coll, category_filter) ==
    /\ category_filter # None
    /\ \A i \in 1..Len(coll) : coll[i].metadata.category # category_filter[1]

\* C8 as stated: search raises nothing, returns at most top_k results, and returns
\* the empty list when the index is empty or no chunk matches the filter.
C8_SearchBounded ==
    ret.op = "search" =>
        /\ ~ret.err
        /\ Len(ret.val) <= ret.arg.top_k
        /\ (collection = <<>> \/ NoMatch(collection, ret.arg.category_filter))
              => ret.val = <<>>

\* C9 as stated: the results are in non-increasing order of relevance and each
\* relevance is exactly max(0, 1 - distance) (relevance in 1e-4 units, distance in 1e-5).
C9_Original ==
    (ret.op = "search" /\ ~ret.err) =>
        /\ \A i \in 1..Len(ret.val) :
              10 * ret.val[i].relevance = Max(0, One5 - ret.raw[i].distance)
        /\ \A i \in 1..(Len(ret.val) - 1) :
              ret.val[i].relevance >= ret.val[i + 1].relevance

\* the stored record with the given id
Stored(coll, id) == coll[CHOOSE i \in 1..Len(coll) : coll[i].id = id]

\* C9 amended: the results are in non-increasing order of relevance; each relevance is
\* max(0, 1 - distance) of its chunk rounded to 4 decimals (so within 0.00005 of it),
\* distance being the distance from the query to the chunk's stored embedding, and
\* lies in [0, 1].
C9_Relevance ==
    (ret.op = "search" /\ ~ret.err) =>
        /\ \A i \in 1..Len(ret.val) :
              LET dist == Distance(embed_text(ret.arg.query),
                                   Stored(collection, ret.raw[i].id).embedding)
                  exact == Max(0, One5 - dist)
                  rel == ret.val[i].relevance
              IN  /\ ret.val[i].content = Stored(collection, ret.raw[i].id).document
                  /\ 10 * rel - exact <= 5
                  /\ exact - 10 * rel <= 5
                  /\ 0 <= rel /\ 10 * rel <= One5
        /\ \A i \in 1..(Len(ret.val) - 1) :
              ret.val[i].relevance >= ret.val[i + 1].relevance

\* C9 witness: a search returned two results of different relevance, the first one
\* rounded (its exact value is no multiple of 0.0001)
C9_Witness ==
    /\ ret.op = "search"
    /\ Len(ret.val) = 2
    /\ ret.val[1].relevance > ret.val[2].relevance
    /\ (One5 - ret.raw[1].distance) % 10 # 0

\* C10 as stated: with a category_filter that is not None, every result's category is
\* exactly the filter value.
C10_FilterExact ==
    (ret.op = "search" /\ ret.arg.category_filter # None) =>
        \A i \in 1..Len(ret.val) : ret.val[i].category = ret.arg.category_filter[1]

(* ============== properties of ingest followed by search =============== *)
\* the documents of a call whose content holds at least one word
WithWords(documents) ==
    SelectSeq(documents, LAMBDA d : NWords(Get(d, "content", <<>>)) >= 1)

\* C11 as stated: for every document with at least one word of content, in any index
\* state, ingesting it and then searching its title with top_k >= 1 (and no category
\* filter) returns at least one chunk whose doc_id is the id of that document.
C11_IngestThenFind ==
    [][(ret.op = "ingest_documents" /\ ret'.op = "search"
          /\ ret'.arg.category_filter = None /\ ret'.arg.top_k >= 1) =>
          \A i \in 1..Len(WithWords(ret.arg)) :
              LET doc == WithWords(ret.arg)[i]
              IN  ret'.arg.query = Get(doc, "title", <<>>) =>
                      \E k \in 1..Len(ret'.raw) :
                          ret'.raw[k].metadata.doc_id = Get(doc, "id", "")]_vars

(* ======================= properties of get_stats ====================== *)
\* C12: after any sequence of ingest, delete_document and clear calls, the
\* total_chunks of get_stats is exactly the number of chunks the index holds at that
\* moment (one per stored id), also when the index is larger than the 100-entry
\* sample, and it is 0 when the call follows a clear.
C12_TotalChunksExact ==
    [][ret'.op = "get_stats" =>
          /\ ret'.val.total_chunks = Cardinality(IdSet(collection'))
          /\ ret'.val.total_chunks = Len(collection)
          /\ (ret.op = "clear" => ret'.val.total_chunks = 0)]_vars

\* C12 witness: get_stats counted more than 100 chunks, of two documents, while its
\* sample held 100 of them
C12_Witness ==
    /\ ret.op = "get_stats"
    /\ ret.val.total_chunks = SAMPLE_LIMIT + 3
    /\ HasDoc(collection, "big") /\ HasDoc(collection, "d1")
    /\ ret.val.categories["Guide"] + ret.val.categories["General"] = SAMPLE_LIMIT

(* ================= properties of the generated history ================ *)
\* the days a get_history call works with
Coerced(days) == IF days \in {30, 60, 90} THEN days ELSE 90

\* C17 as stated: every generated interaction timestamp lies within
\* [now - days, now], now being the time of the generation; its progress, the
\* elapsed fraction of the period, then lies in [0, 1].
C17_TimestampsInPeriod ==
    ret.op = "get_history" =>
        \A i \in 1..Len(ret.val.interactions) :
            LET ts == ret.val.interactions[i].timestamp
            IN  /\ now - Coerced(ret.arg.days) * TicksPerDay <= ts
                /\ ts <= now

\* the call get_history("CUST-12345", 90) has returned
DemoCall ==
    /\ ret.op = "get_history"
    /\ ret.arg = [customer_id |-> "CUST-12345", days |-> 90]
\* the noise draws of the interactions of that call
DemoNoise(i) == rng[MOCK_DATA_VERSION \o "_CUST-12345_90"].draws[i].noise

IsGetHistory(r) == r.op \in {"get_history", "get_sentiment_history"}
CallOf(r) == <<r.arg.customer_id, r.arg.days>>
CacheKey(customer_id, days) == customer_id \o "_" \o ToString(days)

\* C13: two get_history calls with the same customer_id and days, with no reset in
\* between and at any later time, return the same interaction list and the same
\* summary, field for field.
C13_SameAnswer ==
    [][(IsGetHistory(ret') /\ CallOf(ret') \in DOMAIN hist) =>
          /\ ret'.val.interactions = hist[CallOf(ret')].interactions
          /\ ret'.val.summary = hist[CallOf(ret')].summary
          /\ ret'.val = hist[CallOf(ret')]]_vars

\* C13 witness: a call made after time has passed returned the interactions generated
\* at time 0, which are not those a generation at the time of the call gives
C13_Witness ==
    /\ IsGetHistory(ret)
    /\ now = MaxClock
    /\ CallOf(ret) \in DOMAIN hist
    /\ ret.val.interactions # <<>>
    /\ ret.val.interactions =
          generate_customer_history(rng, 0, ret.arg.customer_id, Coerced(ret.arg.days), None)
    /\ ret.val.interactions #
          generate_customer_history(rng, now, ret.arg.customer_id, Coerced(ret.arg.days), None)

\* C14: for every days value not in {30, 60, 90}, get_history(customer_id, days) does
\* what get_history(customer_id, 90) does: it reads and fills the cache entry of
\* (customer_id, 90), no other, and returns that entry.
C14_CoercedTo90 ==
    [][(IsGetHistory(ret') /\ ret'.arg.days \notin {30, 60, 90}) =>
          LET customer_id == ret'.arg.customer_id
              key == CacheKey(customer_id, 90)
              as90 == get_customer_history(history_cache, rng, now, customer_id, 90)
          IN  /\ DOMAIN history_cache' = DOMAIN history_cache \cup {key}
              /\ \A k \in DOMAIN history_cache : history_cache'[k] = history_cache[k]
              /\ ret'.val = history_cache'[key]
              /\ history_cache' = as90.cache
              /\ ret'.val = as90.val]_vars

\* C14 witness: a call with days = 45 filled the entry of (customer_id, 90) of a cache
\* that held the entry of (customer_id, 30) only
C14_Witness ==
    /\ ret.op = "get_history"
    /\ ret.arg = [customer_id |-> "CUST-12345", days |-> 45]
    /\ DOMAIN history_cache = {"CUST-12345_30", "CUST-12345_90"}
    /\ DOMAIN hist = {<<"CUST-12345", 30>>, <<"CUST-12345", 45>>}
    /\ ret.val.summary.total_interactions \in 3..4

\* C15: a cache entry, once computed, is never regenerated or changed by a get_history
\* call for any key; it leaves the cache only through the reset, which removes every
\* entry at once.
C15_ComputedIsFinal ==
    [][/\ \A k \in DOMAIN history_cache :
              \/ k \in DOMAIN history_cache' /\ history_cache'[k] = history_cache[k]
              \/ ret'.op = "reset_history"
       /\ ret'.op = "reset_history" => DOMAIN history_cache' = {}
       /\ IsGetHistory(ret') =>
              /\ DOMAIN history_cache \subseteq DOMAIN history_cache'
              /\ Cardinality(DOMAIN history_cache' \ DOMAIN history_cache) <= 1]_vars

\* C15 witness: after time has passed a get_history call returned one of three cached
\* entries, and an entry of the cache is still the one computed at the earlier time
C15_Witness ==
    /\ ret.op = "get_history"
    /\ Cardinality(DOMAIN history_cache) = 3
    /\ now = MaxClock
    /\ \E k \in DOMAIN history_cache :
          history_cache[k].interactions[1].timestamp
              # generate_customer_history(rng, now, history_cache[k].customer_id,
                    IF k = CacheKey(history_cache[k].customer_id, 30) THEN 30 ELSE 90,
                    None)[1].timestamp
    /\ \E k \in DOMAIN history_cache : history_cache[k] = ret.val

\* C16 as stated: a get_history call made after a cache reset, at a later time, returns
\* the same interactions (timestamps included) and the same summary as the call with
\* the same arguments made before the reset.
C16_SameAfterReset ==
    Len(hist) = 3 =>
        /\ hist[3].val.interactions = hist[1].val.interactions
        /\ hist[3].val.summary = hist[1].val.summary

(* ==================== properties of the summary ======================= *)
\* the sum of the scores lo..hi of a list of interactions
RECURSIVE ScoreSum(_, _, _)
ScoreSum(interactions, lo, hi) ==
    IF lo > hi THEN 0
    ELSE interactions[lo].sentiment_score + ScoreSum(interactions, lo + 1, hi)

\* the trend the rule of thirds gives: the means of the first and of the last
\* max(1, floor(n / 3)) scores compared, scores in 1e-3 units
ThirdsRule(interactions) ==
    LET n == Len(interactions)
        t == Max(1, n \div 3)
        first == ScoreSum(interactions, 1, t)
        last == ScoreSum(interactions, n - t + 1, n)
    IN  IF last - first > 150 * t THEN "improving"
        ELSE IF last - first < -150 * t THEN "declining"
        ELSE "stable"

Summarized == ret.op = "calculate_sentiment_summary" /\ ret.arg # <<>>

\* C19 as stated: the trend of a non-empty sequence follows the rule of thirds, and
\* for n = 1 or 2 both thirds cover the whole sequence, so the trend is 'stable'.
C19_Original ==
    Summarized =>
        /\ ret.val.trend = ThirdsRule(ret.arg)
        /\ Len(ret.arg) \in {1, 2} => ret.val.trend = "stable"

\* C19 amended: the trend of a non-empty sequence follows the rule of thirds; for n = 1
\* both thirds are the one score and the trend is 'stable'; for n = 2 the first third
\* is the first score and the last third the second score, so the trend is 'improving'
\* when the second exceeds the first by more than 0.15, 'declining' when it is lower by
\* more than 0.15, else 'stable'.
C19_TrendByThirds ==
    Summarized =>
        LET n == Len(ret.arg)
            diff2 == ret.arg[2].sentiment_score - ret.arg[1].sentiment_score
        IN  /\ ret.val.trend = ThirdsRule(ret.arg)
            /\ n = 1 => ret.val.trend = "stable"
            /\ n = 2 => ret.val.trend = (IF diff2 > 150 THEN "improving"
                                         ELSE IF diff2 < -150 THEN "declining"
                                         ELSE "stable")

\* C19 witness: six scores whose first and last are equal, with first-third mean
\* -0.005 and last-third mean 0.175: the trend is 'improving'
C19_Witness ==
    /\ Summarized
    /\ Len(ret.arg) = 6
    /\ ret.arg[1].sentiment_score = 150 /\ ret.arg[2].sentiment_score = -160
    /\ ret.arg[5].sentiment_score = 200 /\ ret.arg[6].sentiment_score = 150
    /\ ret.val.trend = "improving"

(* ===================== properties of analyze_sentiment ================ *)
IsAnalyze(r) == r.op \in {"analyze_sentiment", "analyze_text_sentiment"}
\* the provider a call selects
Selected(r) ==
    IF r.op = "analyze_sentiment" THEN r.arg.provider
    ELSE IF r.arg.provider = "transformer" THEN "transformer" ELSE "vader"
\* a text that is empty or holds whitespace only
Blank(text) == \A i \in 1..Len(text) : text[i] = WS

\* C20: analyze_sentiment on empty or whitespace-only text returns sentiment
\* neutral, score 0 and confidence 50 with an error entry in breakdown, calls no
\* provider and leaves both provider singletons as they were, whichever provider
\* is selected and whatever state the singletons are in
C20_EmptyTextShortCircuit ==
    [][(IsAnalyze(ret') /\ Blank(ret'.arg.text)) =>
        /\ ret'.val.sentiment = "neutral"
        /\ ret'.val.score = 0
        /\ ret'.val.confidence = 500
        /\ "error" \in DOMAIN ret'.val.breakdown
        /\ ret'.val.provider = Selected(ret')
        /\ ret'.calls = <<>>
        /\ vader_analyzer' = vader_analyzer
        /\ transformer_analyzer' = transformer_analyzer]_vars

\* C20 witness: whitespace-only text sent to the transformer provider while the
\* rule-based singleton is loaded and the transformer singleton exists unloaded
C20_Witness ==
    /\ IsAnalyze(ret)
    /\ ret.arg.text = <<WS>>
    /\ Selected(ret) = "transformer"
    /\ ret.val.confidence = 500
    /\ vader_analyzer # None /\ vader_analyzer[1].analyzer # None
    /\ transformer_analyzer # None /\ transformer_analyzer[1].classifier = None

(* ================== properties of the provider singletons ============= *)
Other(p) == IF p = "vader" THEN "transformer" ELSE "vader"
SingletonOf(p, va, ta) == IF p = "vader" THEN va ELSE ta
\* whether the model of a singleton is loaded
Loaded(p, a) ==
    a # None /\ (IF p = "vader" THEN a[1].analyzer # None ELSE a[1].classifier # None)
Has(events, e) == \E i \in 1..Len(events) : events[i] = e
\* a call that reached its provider, and one whose provider failed to load or to
\* analyze
Reached(r) == IsAnalyze(r) /\ ~Blank(r.arg.text)
ProviderFailed(r) ==
    Reached(r) /\ (Has(r.events, "load_failed") \/ Has(r.events, "analyze_failed"))

\* C21: when the selected provider fails to load or fails while analyzing, the
\* call answers neutral, score 0, confidence 0 with the error message in
\* breakdown and leaves the other provider's singleton as it was; a call with a
\* provider whose library works succeeds whatever happened to the other provider
C21_DegradedResult ==
    [][LET p == Selected(ret')
           before == SingletonOf(p, vader_analyzer, transformer_analyzer)
           after == SingletonOf(p, vader_analyzer', transformer_analyzer')
           degraded ==
               /\ ret'.err = FALSE
               /\ ret'.val = SentimentResult(p, "neutral", 0, 0, 0, ret'.val.breakdown)
               /\ DOMAIN ret'.val.breakdown = {"error"}
               /\ (Has(ret'.events, "analyze_failed") =>
                       ret'.val.breakdown.error = ret'.env.error[1])
               /\ SingletonOf(Other(p), vader_analyzer', transformer_analyzer')
                    = SingletonOf(Other(p), vader_analyzer, transformer_analyzer)
           works ==
               /\ Reached(ret')
               /\ ret'.env.error = None
               /\ (ret'.env.importable \/ Loaded(p, before))
           succeeds ==
               /\ "error" \notin DOMAIN ret'.val.breakdown
               /\ ret'.val.provider = p
               /\ Loaded(p, after)
       IN  (ProviderFailed(ret') => degraded) /\ (works => succeeds)]_vars

\* C21 witness: the rule-based provider answers after the last call of the
\* model-based provider failed to load its model
C21_Witness ==
    /\ Reached(ret)
    /\ Selected(ret) = "vader"
    /\ "error" \notin DOMAIN ret.val.breakdown
    /\ UseOf(hist, "transformer").failed
    /\ transformer_analyzer # None /\ ~Loaded("transformer", transformer_analyzer)

\* C22: over any sequence of analyze_sentiment calls each provider's singleton
\* is absent until the provider is first used and is built by that use only, its
\* model is loaded at most once, and every call made once the model is loaded
\* leaves the singleton as it is, building and loading nothing
C22_LazySingletons ==
    [][\A p \in {"vader", "transformer"} :
          LET before == SingletonOf(p, vader_analyzer, transformer_analyzer)
              after == SingletonOf(p, vader_analyzer', transformer_analyzer')
              u == UseOf(hist', p)
          IN  /\ (after # None) = u.used
              /\ u.created = (IF u.used THEN 1 ELSE 0)
              /\ u.loads = (IF Loaded(p, after) THEN 1 ELSE 0)
              /\ Loaded(p, before) =>
                    /\ after = before
                    /\ (ret'.calls = <<p>> =>
                          ~Has(ret'.events, "create") /\ ~Has(ret'.events, "load"))]_vars

\* C22 witness: a call of the rule-based provider answered by the model loaded
\* in an earlier call, while the model-based provider was never used
C22_Witness ==
    /\ Reached(ret)
    /\ ret.calls = <<"vader">>
    /\ ret.events = <<"analyze">>
    /\ UseOf(hist, "vader").loads = 1
    /\ transformer_analyzer = None

(* ================= properties of the model-based provider ============= *)
TransformerAnalyzed == ret.op = "transformer_analyze"
Rounded4(raw) == RoundDiv(raw, 10)

\* C23 as stated: below 0.6 the answer is neutral with score 0, otherwise the
\* score is the raw probability itself, signed by the label
C23_Original ==
    TransformerAnalyzed =>
        IF ret.arg.score < 60000
        THEN ret.val.sentiment = "neutral" /\ ret.val.score = 0
        ELSE IF upper(ret.arg.label) = "POSITIVE"
        THEN ret.val.sentiment = "positive" /\ 10 * ret.val.score = ret.arg.score
        ELSE ret.val.sentiment = "negative" /\ 10 * ret.val.score = -ret.arg.score

\* C23: for the model-based provider a raw probability below 0.6 always yields
\* sentiment neutral with score 0 regardless of the label; otherwise a POSITIVE
\* label yields sentiment positive with score = the raw probability rounded to
\* 4 decimals and a negative label yields sentiment negative with score = minus
\* the raw probability rounded to 4 decimals
C23_NeutralBelowCutoff ==
    TransformerAnalyzed =>
        IF ret.arg.score < 60000
        THEN ret.val.sentiment = "neutral" /\ ret.val.score = 0
        ELSE IF upper(ret.arg.label) = "POSITIVE"
        THEN ret.val.sentiment = "positive" /\ ret.val.score = Rounded4(ret.arg.score)
        ELSE ret.val.sentiment = "negative" /\ ret.val.score = -Rounded4(ret.arg.score)

\* C23 witness: the probability 0.59996 under the label POSITIVE, which rounds
\* to 0.6, answered neutral with score 0
C23_Witness ==
    /\ TransformerAnalyzed
    /\ ret.arg = [label |-> "POSITIVE", score |-> 59996]
    /\ ret.val.sentiment = "neutral" /\ ret.val.score = 0
    /\ ret.val.breakdown.raw_score = 6000

(* ============ properties of get_customer_history under threads ======== *)
\* C24: even when calls of get_history for the same key interleave, every call
\* for that key returns the same output
C24_SameOutputConcurrently ==
    \A key \in DOMAIN hist : Cardinality(hist[key]) <= 1

(* ================= properties of the interaction records ============== *)
\* the label the thresholds give to a stored score (in units of 1e-3)
LabelOfStored(stored) ==
    IF stored >= 150 THEN "positive" ELSE IF stored <= -150 THEN "negative" ELSE "neutral"

\* C25: for every interaction record returned by get_history the stored
\* sentiment_score lies in [-1, 1] and the stored sentiment_label is the
\* threshold label of that stored score
C25_LabelOfStoredScore ==
    ret.op = "get_history" =>
        \A i \in 1..Len(ret.val.interactions) :
            LET x == ret.val.interactions[i]
            IN  /\ -1000 <= x.sentiment_score /\ x.sentiment_score <= 1000
                /\ x.sentiment_label = LabelOfStored(x.sentiment_score)

(* ================== frame of delete_document, chunk metadata ========== *)
\* the positions of the chunks of a document in a collection
ChunksOf(coll, doc_id) == {i \in 1..Len(coll) : coll[i].metadata.doc_id = doc_id}

Numbered(coll) ==
    \A i \in 1..Len(coll) :
        LET mine == ChunksOf(coll, coll[i].metadata.doc_id)
            total == coll[i].metadata.total_chunks
        IN  /\ \A j \in mine : coll[j].metadata.total_chunks = total
            /\ Cardinality(mine) = total
            /\ {coll[j].metadata.chunk_index : j \in mine} = 0..(total - 1)

\* an ingest call with a document of non-empty content whose doc_id the index
\* already holds chunks of, or which an earlier document of the call carries
Reingests(coll, documents) ==
    \E k \in 1..Len(documents) :
        /\ Get(documents[k], "content", <<>>) # <<>>
        /\ \/ ChunksOf(coll, Get(documents[k], "id", "")) # {}
           \/ \E j \in 1..(k - 1) :
                 /\ Get(documents[j], "content", <<>>) # <<>>
                 /\ Get(documents[j], "id", "") = Get(documents[k], "id", "")

\* C27 as stated: after any sequence of ingest, delete_document and clear
\* operations the chunks of each doc_id are numbered 0 .. total_chunks-1
C27_Original == Numbered(collection)

\* C27: every ingest, delete_document and clear operation that is not an ingest
\* of a doc_id already in the index (or twice in the call) keeps the chunks of
\* each doc_id numbered 0 .. total_chunks-1 with one total_chunks value; the
\* empty index is numbered so
C27_NumberedUnlessReingested ==
    [][(/\ Numbered(collection)
        /\ ~(ret'.op = "ingest_documents" /\ Reingests(collection, ret'.arg)))
       => Numbered(collection')]_vars

\* C27 witness: the two chunks of d1 next to a chunk of d2, ingested in one call
C27_Witness ==
    /\ ret.op = "ingest_documents"
    /\ Len(ret.arg) = 2
    /\ Cardinality(ChunksOf(collection, "d1")) = 2
    /\ Cardinality(ChunksOf(collection, "d2")) = 1
    /\ Len(collection) = 3
    /\ Numbered(collection)

(* ================== properties of the statistics ====================== *)
DocIdsOf(coll) == {coll[i].metadata.doc_id : i \in 1..Len(coll)}
RECURSIVE SumOver(_, _)
SumOver(f, keys) ==
    IF keys = {} THEN 0
    ELSE LET k == CHOOSE x \in keys : TRUE IN f[k] + SumOver(f, keys \ {k})

\* C28: whenever the index holds at most 100 chunks, the unique_documents of
\* get_stats is the number of distinct doc_id values in the index and the counts
\* in categories sum to total_chunks
C28_StatsOfSmallIndex ==
    [][(ret'.op = "get_stats" /\ Len(collection) <= SAMPLE_LIMIT) =>
          /\ ret'.val.unique_documents = Cardinality(DocIdsOf(collection))
          /\ SumOver(ret'.val.categories, DOMAIN ret'.val.categories)
                = ret'.val.total_chunks]_vars

(* ================== properties of the ingest statistics =============== *)
\* the documents of a call that yield at least one chunk
Yielding(documents) ==
    {k \in 1..Len(documents) :
        chunk_text(Get(documents[k], "content", <<>>), CHUNK_SIZE, CHUNK_OVERLAP).chunks
            # <<>>}

\* C29: the documents_ingested value returned by ingest is the number of
\* documents of the call that contributed at least one chunk; a document that
\* yields no chunk, such as one of whitespace-only content, is not counted
C29_CountsContributingDocuments ==
    [][ret'.op = "ingest_documents" =>
          ret'.val.documents_ingested = Cardinality(Yielding(ret'.arg))]_vars

\* C30: the total_documents value returned by ingest is the number of distinct
\* doc_id values held in the index after the call; for ingest([]) it is that
\* number unchanged, with documents_ingested = 0 and chunks_created = 0
C30_TotalDocuments ==
    [][ret'.op = "ingest_documents" =>
          /\ ret'.val.total_documents = Cardinality(DocIdsOf(collection'))
          /\ ret'.arg = <<>> =>
                /\ ret'.val.total_documents = Cardinality(DocIdsOf(collection))
                /\ ret'.val.documents_ingested = 0
                /\ ret'.val.chunks_created = 0]_vars
====
